---- MODULE Spec2Model ----
(***************************************************************************)
(* Model of src/src/transaction.js: the varint codec, the sighash preimage *)
(* builder (signatureForm), the serializer (serializeTx) and the signer    *)
(* (signTx).                                                               *)
(*                                                                         *)
(* Representation.                                                         *)
(*  - A byte is an integer in 0..255.  A hex string of the source is       *)
(*    represented by the sequence of bytes it denotes; concatenation of    *)
(*    hex strings is concatenation of byte sequences, and the JavaScript   *)
(*    `.length` of a hex string (its number of characters) is HexLength.   *)
(*  - A JavaScript number holding a non-negative integer below 2^64 is a   *)
(*    tuple of four base-65536 limbs, least significant first, because the *)
(*    values of interest (2^32, 2^64-1) exceed the integers TLC computes   *)
(*    with.  Arithmetic on such numbers is done limb by limb.              *)
(*  - JavaScript objects are references.  An operator that models a        *)
(*    function mutating its argument returns the argument's state after    *)
(*    the call (field txObj) next to the function's return value.          *)
(***************************************************************************)
EXTENDS Integers, Sequences, FiniteSets, TLC

VARIABLES
  tx,      \* the caller's TXOBJ
  before,  \* the caller's TXOBJ as it was when the last call was made
  call,    \* the last call: function name and arguments
  ret,     \* what the last call produced
  num,     \* argument of the last numToVarInt call
  varint   \* bytes returned by the last numToVarInt call

vars == <<tx, before, call, ret, num, varint>>

----------------------------------------------------------------------------
(* Numbers *)

Limb == 256 * 256

\* The JavaScript number n, for n small enough for TLC's integers.
Num(n) == <<n % Limb, (n \div Limb) % Limb, 0, 0>>

NumLess(a, b) ==
  \E k \in 1..4 : a[k] < b[k] /\ \A m \in (k+1)..4 : a[m] = b[m]

\* num % 256
NumMod256(n) == n[1] % 256

\* Math.floor(num / 256)
NumDiv256(n) ==
  << (n[1] \div 256) + (n[2] % 256) * 256,
     (n[2] \div 256) + (n[3] % 256) * 256,
     (n[3] \div 256) + (n[4] % 256) * 256,
     n[4] \div 256 >>

\* Position of the highest and of the lowest set bit of a limb (1..16), 0 for 0.
RECURSIVE HighBit(_)
HighBit(x) == IF x = 0 THEN 0 ELSE 1 + HighBit(x \div 2)

RECURSIVE LowBit(_)
LowBit(x) == IF x = 0 THEN 0 ELSE IF x % 2 = 1 THEN 1 ELSE 1 + LowBit(x \div 2)

\* An integer below 2^64 is a JavaScript number (an IEEE double) exactly when
\* its set bits span at most 53 positions.
IsJsNumber(n) ==
  LET nz == {k \in 1..4 : n[k] # 0}
      hi == CHOOSE k \in nz : \A m \in nz : m <= k
      lo == CHOOSE k \in nz : \A m \in nz : k <= m
  IN  nz = {} \/ (16 * (hi - 1) + HighBit(n[hi])) - (16 * (lo - 1) + LowBit(n[lo])) + 1 <= 53

----------------------------------------------------------------------------
(* Varint / byte codec *)

RECURSIVE numToBytes(_, _)
numToBytes(n, bytes) ==
  IF bytes = 0 THEN <<>>
  ELSE <<NumMod256(n)>> \o numToBytes(NumDiv256(n), bytes - 1)

numToVarInt_m(n) ==
  IF NumLess(n, Num(253)) THEN <<n[1]>>
  ELSE IF NumLess(n, <<0, 1, 0, 0>>) THEN <<253>> \o numToBytes(n, 2)
  ELSE IF NumLess(n, <<0, 0, 1, 0>>) THEN <<254>> \o numToBytes(n, 4)
  ELSE <<255>> \o numToBytes(n, 8)

\* Buffer(b) stores each element modulo 256; every element built here is
\* already a byte (n < 253 in the first branch).
numToVarInt(n) ==
  IF NumLess(n, Num(253)) THEN <<n[1]>>
  ELSE IF NumLess(n, <<0, 1, 0, 0>>) THEN <<253>> \o numToBytes(n, 2)
  ELSE IF NumLess(n, <<0, 0, 1, 0>>) THEN <<254>> \o numToBytes(n, 4)
  ELSE <<253>> \o numToBytes(n, 8)

\* Number of characters of the hex string denoting the byte sequence s.
HexLength(s) == 2 * Len(s)

\* getStringBufferLength: Buffer.from([n]) keeps n modulo 256, one byte.
getStringBufferLength_m(hexStr) == <<HexLength(hexStr) % 256>>

getStringBufferLength(hexStr) == <<Len(hexStr) % 256>>

----------------------------------------------------------------------------
(* Opcodes and sighash codes *)

OP_DUP == 118
OP_HASH160 == 169
OP_EQUALVERIFY == 136
OP_CHECKSIG == 172
OP_CHECKBLOCKATHEIGHT == 180

SIGHASH_ALL == 1
SIGHASH_NONE == 2
SIGHASH_SINGLE == 3
SIGHASH_ANYONECANPAY == 128

HashCodes == {SIGHASH_ALL, SIGHASH_NONE, SIGHASH_SINGLE, SIGHASH_ANYONECANPAY}

\* Math.pow(2, 64) - 1, the SIGHASH_SINGLE placeholder amount.  (As a double
\* the expression rounds to 2^64; the source only ever compares it with
\* itself, so it is modelled as the one value above every other amount.)
MaxUint64 == <<Limb - 1, Limb - 1, Limb - 1, Limb - 1>>

----------------------------------------------------------------------------
(* Buffers *)

\* The function f on 1..n as a sequence with its elements computed.
AsSeq(f) == <<>> \o f

Reverse(s) == AsSeq([k \in 1..Len(s) |-> s[Len(s) + 1 - k]])

\* buf with the bytes bs stored from (0-based) offset on.
WriteAt(buf, bs, offset) ==
  SubSeq(buf, 1, offset) \o bs \o SubSeq(buf, offset + Len(bs) + 1, Len(buf))

\* Buffer.alloc(size): zero-filled.
BufferAlloc(size) == AsSeq([k \in 1..size |-> 0])

\* buf.writeUInt16LE(value, offset): throws when value exceeds 0xffff.
writeUInt16LE(buf, value, offset) ==
  IF NumLess(value, <<0, 1, 0, 0>>)
  THEN [ok |-> TRUE, buf |-> WriteAt(buf, numToBytes(value, 2), offset)]
  ELSE [ok |-> FALSE, buf |-> buf]

\* buf.writeUInt32LE(value, offset): throws when value exceeds 0xffffffff.
writeUInt32LE(buf, value, offset) ==
  IF NumLess(value, <<0, 0, 1, 0>>)
  THEN [ok |-> TRUE, buf |-> WriteAt(buf, numToBytes(value, 4), offset)]
  ELSE [ok |-> FALSE, buf |-> buf]

----------------------------------------------------------------------------
(* Script builder *)

blockHeight == 141575

\* The block hash of line 107, as bytes.
blockHash ==
  <<0, 0, 0, 4, 187, 232, 80, 75, 122, 142, 124, 110, 35, 234, 111, 165,
    120, 120, 206, 148, 111, 152, 25, 117, 36, 5, 217, 100, 23, 92, 66, 118>>

\* blockHeightBuffer: 4 bytes, little-endian.
blockHeightBuffer == writeUInt32LE(BufferAlloc(4), Num(blockHeight), 0).buf

\* blockHeightHex: the buffer without its last byte when that byte is 0.
blockHeightHex ==
  IF blockHeightBuffer[4] = 0 THEN SubSeq(blockHeightBuffer, 1, 3) ELSE blockHeightBuffer

blockHashHex == Reverse(blockHash)

\* getStringBufferLength(data) + data
Push(data) == getStringBufferLength(data) \o data

\* An address is represented by the bytes bs58check.decode gives for it;
\* addrHex.substring(4) drops the first two of them.
mkPubkeyHashReplayScript(address) ==
  <<OP_DUP, OP_HASH160>> \o Push(SubSeq(address, 3, Len(address)))
    \o <<OP_EQUALVERIFY, OP_CHECKSIG>>
    \o Push(blockHashHex) \o Push(blockHeightHex)
    \o <<OP_CHECKBLOCKATHEIGHT>>

----------------------------------------------------------------------------
(* Capabilities outside the file: key derivation, hashing, ECDSA.  Each is *)
(* a deterministic function of its arguments; the bodies are stand-ins     *)
(* that keep the sizes (33-byte public key, 2+20-byte decoded address,     *)
(* 32-byte digest, 64-byte raw signature) and depend on their arguments.   *)

privKeyToPubKey(privKey) ==
  AsSeq([k \in 1..33 |-> IF k = 1 THEN 2 ELSE (7 * privKey[k - 1] + k) % 256])

pubKeyToAddr(pubKey) ==
  <<32, 137>> \o AsSeq([k \in 1..20 |-> (pubKey[k + 1] + 3 * pubKey[k + 13]) % 256])

\* Byte k of the digest mixes the length of msg with four bytes of msg taken
\* at positions spread over it.
Tap(msg, p) == IF msg = <<>> THEN 0 ELSE msg[1 + (p % Len(msg))]

sha256x2(msg) ==
  AsSeq([k \in 1..32 |->
     (Len(msg) + k * Tap(msg, 5 * k) + 3 * Tap(msg, 11 * k + 40)
        + 5 * Tap(msg, 17 * k + 90) + 7 * Tap(msg, 23 * k + 150)) % 256])

secp256k1Sign(msg, privKey) ==
  AsSeq([k \in 1..64 |->
     IF k <= 32 THEN (msg[k] + privKey[k]) % 256
     ELSE (3 * msg[65 - k] + privKey[k - 32] + k) % 256])

----------------------------------------------------------------------------
(* Serializer *)

\* The serializer's progress is a record: ok (no write has thrown), buf16
\* (the contents of the one 4-byte buffer _buf16 that the version, vout and
\* locktime writes share) and hex (serializedTx so far).

\* The script's length prefix: numToVarInt(script.length), the length being
\* that of the hex string.
ScriptLength(script) == numToVarInt(Num(HexLength(script)))

\* Lines 207-215, w being the outcome of the vout write.
AppendIn(st, in, w) ==
  [ok    |-> st.ok /\ w.ok,
   buf16 |-> w.buf,
   hex   |-> st.hex \o in.output.hash \o w.buf
               \o ScriptLength(in.script) \o in.script \o in.sequence]

\* One iteration of the txObj.ins.map callback.
serializeIn(st, in) == AppendIn(st, in, writeUInt16LE(st.buf16, in.output.vout, 0))

\* The writes into _buf32 (lines 223-230).
WriteSatoshis(satoshis) ==
  IF satoshis = MaxUint64
  THEN writeUInt32LE(writeUInt32LE(BufferAlloc(8), <<Limb - 1, Limb - 1, 0, 0>>, 0).buf,
                     <<Limb - 1, Limb - 1, 0, 0>>, 4)
  ELSE writeUInt32LE(BufferAlloc(8), satoshis, 0)

\* Lines 232-234, w being the outcome of the amount writes.
AppendOut(st, o, w) ==
  [ok    |-> st.ok /\ w.ok,
   buf16 |-> st.buf16,
   hex   |-> st.hex \o w.buf \o ScriptLength(o.script) \o o.script]

\* One iteration of the txObj.outs.map callback.
serializeOut(st, o) == AppendOut(st, o, WriteSatoshis(o.satoshis))

\* txObj.ins.map(...) over the first k inputs.
RECURSIVE serializeIns(_, _, _)
serializeIns(st, ins, k) ==
  IF k = 0 THEN st ELSE serializeIn(serializeIns(st, ins, k - 1), ins[k])

\* txObj.outs.map(...) over the first k outputs.
RECURSIVE serializeOuts(_, _, _)
serializeOuts(st, outs, k) ==
  IF k = 0 THEN st ELSE serializeOut(serializeOuts(st, outs, k - 1), outs[k])

\* Lines 199-203, w being the outcome of the version write.
AppendVersion(w, ins) ==
  [ok |-> w.ok, buf16 |-> w.buf, hex |-> w.buf \o numToVarInt(Num(Len(ins)))]

\* Line 219.
AppendOutCount(st, outs) == [st EXCEPT !.hex = @ \o numToVarInt(Num(Len(outs)))]

\* Lines 238-241, w being the outcome of the locktime write.  ok is FALSE
\* when a write has thrown (RangeError), and then nothing is returned.
AppendLocktime(st, w) ==
  [ok |-> st.ok /\ w.ok, hex |-> IF st.ok /\ w.ok THEN st.hex \o w.buf ELSE <<>>]

serializeLocktime(st, locktime) ==
  AppendLocktime(st, writeUInt16LE(st.buf16, locktime, 0))

serializeTx(txObj) ==
  serializeLocktime(
    serializeOuts(
      AppendOutCount(
        serializeIns(
          AppendVersion(writeUInt16LE(BufferAlloc(4), txObj.version, 0), txObj.ins),
          txObj.ins, Len(txObj.ins)),
        txObj.outs),
      txObj.outs, Len(txObj.outs)),
    txObj.locktime)

----------------------------------------------------------------------------
(* Sighash preimage builder *)

Min(a, b) == IF a < b THEN a ELSE b

NoTx == [version |-> Num(0), locktime |-> Num(0), ins |-> <<>>, outs |-> <<>>]

\* for (j ...) newTx.ins[j].script = ''
ClearScripts(ins) == AsSeq([k \in 1..Len(ins) |-> [ins[k] EXCEPT !.script = <<>>]])

\* newTx.ins[i].script = script
SetScript(ins, i, script) == [ins EXCEPT ![i + 1].script = script]

\* newTx.outs[j].satoshis = Math.pow(2, 64) - 1; newTx.outs[j].script = ''
\* for the first n elements of outs.
BlankOuts(outs, n) ==
  AsSeq([k \in 1..Len(outs) |->
     IF k <= n THEN [script |-> <<>>, satoshis |-> MaxUint64] ELSE outs[k]])

\* newTx.outs.slice(0, newTx.ins.length)
SliceOuts(outs, ins) == SubSeq(outs, 1, Min(Len(outs), Len(ins)))

\* Number of iterations of the SIGHASH_SINGLE loop that complete: the loop
\* runs j = 0 .. ins.length - 2 and throws (TypeError) at the first j the
\* sliced outs have no element for.
SingleBlanked(outs, ins) == Min(Len(SliceOuts(outs, ins)), Len(ins) - 1)

SingleThrows(outs, ins) == Len(SliceOuts(outs, ins)) < Len(ins) - 1

AnyoneCanPayIns_m(ins, i) == <<ins[1]>>

\* [newTx.ins[i]]
AnyoneCanPayIns(ins, i) == <<ins[i + 1]>>

\* Lines 174-186.  t is the caller's transaction after the script writes;
\* newTx.ins and newTx.outs are t's arrays until they are reassigned, and
\* the elements of a slice are the elements of the array sliced.  Result: ok
\* (FALSE when the call throws), txObj (the caller's transaction after the
\* call), newTx (the returned object; NoTx when the call throws).
FormOutputs(t, i, hashcode) ==
  IF hashcode = SIGHASH_NONE
  THEN [ok |-> TRUE, txObj |-> t, newTx |-> [t EXCEPT !.outs = <<>>]]
  ELSE IF hashcode = SIGHASH_SINGLE
  THEN [ok    |-> ~SingleThrows(t.outs, t.ins),
        txObj |-> [t EXCEPT !.outs = BlankOuts(@, SingleBlanked(t.outs, t.ins))],
        newTx |-> IF SingleThrows(t.outs, t.ins) THEN NoTx
                  ELSE [t EXCEPT !.outs =
                          SliceOuts(BlankOuts(@, SingleBlanked(t.outs, t.ins)), t.ins)]]
  ELSE IF hashcode = SIGHASH_ANYONECANPAY
  THEN [ok |-> TRUE, txObj |-> t, newTx |-> [t EXCEPT !.ins = AnyoneCanPayIns(@, i)]]
  ELSE [ok |-> TRUE, txObj |-> t, newTx |-> t]

\* signatureForm(txObj, i, script, hashcode), i a 0-based index.
\* Object.assign({}, txObj) copies the four fields only: newTx.ins and
\* newTx.outs are the caller's arrays, so every write through them is a
\* write to the caller's transaction.  newTx.ins[i].script = script throws
\* (TypeError) when there is no input i.
signatureForm(txObj, i, script, hashcode) ==
  IF i >= Len(txObj.ins)
  THEN [ok |-> FALSE, txObj |-> [txObj EXCEPT !.ins = ClearScripts(@)], newTx |-> NoTx]
  ELSE FormOutputs([txObj EXCEPT !.ins = SetScript(ClearScripts(@), i, script)],
                   i, hashcode)

----------------------------------------------------------------------------
(* Signer *)

SubstituteScript_m(txObj, i, privKey) ==
  IF i < Len(txObj.ins) THEN txObj.ins[i + 1].script ELSE <<>>

\* The script signTx hands to signatureForm (lines 291-293).
SubstituteScript(txObj, i, privKey) ==
  mkPubkeyHashReplayScript(pubKeyToAddr(privKeyToPubKey(privKey)))

\* b with '00' prepended when its first hex character is one of 89abcdef.
PadHighBit(b) == IF b[1] >= 128 THEN <<0>> \o b ELSE b

\* rawsig.substr(0, 64) and rawsig.substr(64, 128), in bytes.
RawR(rawsig) == SubSeq(rawsig, 1, Min(Len(rawsig), 32))

RawS(rawsig) == SubSeq(rawsig, 33, Min(Len(rawsig), 32 + 64))

\* '02' + getStringBufferLength(b) + b
DerInteger(b) == <<2>> \o Push(b)

\* '30' + getStringBufferLength(left + right) + left + right
DerSequence(left, right) == <<48>> \o Push(left \o right)

\* sig, from the raw signature (lines 310-322).
EncodeSig(rawsig) ==
  DerSequence(DerInteger(PadHighBit(RawR(rawsig))), DerInteger(PadHighBit(RawS(rawsig))))

\* Lines 323-329: sig + the hashcode byte, then the unlocking script.
UnlockingScript(sig, hashcode, pubKey) ==
  Push(sig \o <<hashcode % 256>>) \o Push(pubKey)

\* Lines 309-329, given the raw signature.
WriteSignature(t, i, privKey, hashcode, rawsig, sig) ==
  [ok     |-> TRUE,
   txObj  |-> [t EXCEPT !.ins[i + 1].script =
                 UnlockingScript(sig, hashcode, privKeyToPubKey(privKey))],
   rawsig |-> rawsig,
   sig    |-> sig]

EncodeAndWrite(t, i, privKey, hashcode, rawsig) ==
  WriteSignature(t, i, privKey, hashcode, rawsig, EncodeSig(rawsig))

\* The 4-byte _buf16 of signTx holding the hashcode.
HashcodeBuffer(hashcode) == writeUInt16LE(BufferAlloc(4), Num(hashcode), 0).buf

\* Lines 297-307, ser being the outcome of serializeTx(signingTx).  A throw
\* leaves the caller's transaction as signatureForm left it.
SignSerialized(t, ser, i, privKey, hashcode) ==
  IF ~ser.ok
  THEN [ok |-> FALSE, txObj |-> t, rawsig |-> <<>>, sig |-> <<>>]
  ELSE EncodeAndWrite(t, i, privKey, hashcode,
         secp256k1Sign(sha256x2(ser.hex \o HashcodeBuffer(hashcode)), privKey))

\* Lines 296-329, sf being the outcome of signatureForm.
SignForm(sf, i, privKey, hashcode) ==
  IF ~sf.ok
  THEN [ok |-> FALSE, txObj |-> sf.txObj, rawsig |-> <<>>, sig |-> <<>>]
  ELSE SignSerialized(sf.txObj, serializeTx(sf.newTx), i, privKey, hashcode)

\* signTx(txObj, i, privKey, hashcode).  Result: ok (FALSE when the call
\* throws), txObj (the caller's transaction after the call), rawsig and sig
\* (the raw and the encoded signature; empty when the call throws).
signTx(txObj, i, privKey, hashcode) ==
  SignForm(signatureForm(txObj, i, SubstituteScript(txObj, i, privKey), hashcode),
           i, privKey, hashcode)

----------------------------------------------------------------------------
(* Inputs of the model *)

MaxIns == 2
MaxOuts == 2

\* The k-th spendable output as createRawTx turns it into an input.
Input(k) ==
  [output   |-> [hash |-> AsSeq([j \in 1..32 |-> k]), vout |-> Num(k - 1)],
   script   |-> <<>>,
   sequence |-> <<255, 255, 255, 255>>]

\* The k-th output of a transaction paying amounts below 2^32 satoshis.
SmallOutput(k) ==
  [script   |-> IF k % 2 = 1 THEN <<OP_CHECKSIG>>
                ELSE <<OP_HASH160, 20>> \o AsSeq([j \in 1..20 |-> j]) \o <<135>>,
   satoshis |-> Num(99990000 + k)]

\* The same, the even outputs paying 5000000000 + k satoshis.
LargeOutput(k) ==
  IF k % 2 = 1 THEN SmallOutput(k)
  ELSE [SmallOutput(k) EXCEPT !.satoshis = <<61952 + k, 10757, 1, 0>>]

\* Version and lock time: both within 16 bits, or both beyond.
HeaderSamples ==
  { [version |-> Num(1), locktime |-> Num(65535)],
    [version |-> <<0, 1, 0, 0>>, locktime |-> <<Limb - 1, Limb - 1, 0, 0>>] }

OutsSamples ==
  {[k \in 1..n |-> SmallOutput(k)] : n \in 0..MaxOuts}
    \cup {[k \in 1..n |-> LargeOutput(k)] : n \in 0..MaxOuts}

TxSamples ==
  { [version |-> h.version, locktime |-> h.locktime,
     ins |-> [k \in 1..n |-> Input(k)], outs |-> outs] :
      h \in HeaderSamples, n \in 0..MaxIns, outs \in OutsSamples }

ScriptSamples == {<<OP_DUP, OP_CHECKSIG>>}

KeySamples == {AsSeq([j \in 1..32 |-> 17]), AsSeq([j \in 1..32 |-> 200 - j])}

NoCall == [op |-> "none", i |-> 0, script |-> <<>>, privKey |-> <<>>, hashcode |-> 0]

NoRet == [ok |-> TRUE, newTx |-> NoTx, hex |-> <<>>, rawsig |-> <<>>, sig |-> <<>>]

----------------------------------------------------------------------------
(* The caller's transaction and the calls made on it *)

Init ==
  /\ tx \in TxSamples
  /\ before = tx
  /\ call = NoCall
  /\ ret = NoRet
  /\ num = Num(0)
  /\ varint = <<>>

\* The caller calls signatureForm on its transaction.
SignatureForm ==
  \E i \in 0..(MaxIns - 1), script \in ScriptSamples, hashcode \in HashCodes :
    \E r \in {signatureForm(tx, i, script, hashcode)} :
      /\ tx' = r.txObj
      /\ before' = tx
      /\ call' = [NoCall EXCEPT !.op = "signatureForm", !.i = i,
                                !.script = script, !.hashcode = hashcode]
      /\ ret' = [NoRet EXCEPT !.ok = r.ok, !.newTx = r.newTx]
      /\ UNCHANGED <<num, varint>>

\* The caller calls serializeTx on its transaction.
SerializeTx ==
  \E r \in {serializeTx(tx)} :
    /\ before' = tx
    /\ call' = [NoCall EXCEPT !.op = "serializeTx"]
    /\ ret' = [NoRet EXCEPT !.ok = r.ok, !.hex = r.hex]
    /\ UNCHANGED <<tx, num, varint>>

\* The caller calls signTx on its transaction.
SignTx ==
  \E i \in 0..(MaxIns - 1), privKey \in KeySamples, hashcode \in HashCodes :
    \E r \in {signTx(tx, i, privKey, hashcode)} :
      /\ tx' = r.txObj
      /\ before' = tx
      /\ call' = [NoCall EXCEPT !.op = "signTx", !.i = i,
                                !.privKey = privKey, !.hashcode = hashcode]
      /\ ret' = [NoRet EXCEPT !.ok = r.ok, !.rawsig = r.rawsig, !.sig = r.sig]
      /\ UNCHANGED <<num, varint>>

Next == SignatureForm \/ SerializeTx \/ SignTx

Spec == Init /\ [][Next]_vars

----------------------------------------------------------------------------
(* The varint codec on its own *)

LimbSamples == {0, 1, 252, 253, 254, 255, 256, 65535}

NumSamples ==
  {n \in LimbSamples \X LimbSamples \X LimbSamples \X LimbSamples : IsJsNumber(n)}

InitVarInt ==
  /\ tx = NoTx
  /\ before = NoTx
  /\ call = NoCall
  /\ ret = NoRet
  /\ num \in NumSamples
  /\ varint = <<>>

NumToVarInt ==
  /\ call.op = "none"
  /\ varint' = numToVarInt(num)
  /\ call' = [NoCall EXCEPT !.op = "numToVarInt"]
  /\ UNCHANGED <<tx, before, ret, num>>

NextVarInt == NumToVarInt

SpecVarInt == InitVarInt /\ [][NextVarInt]_vars

----------------------------------------------------------------------------
(* Properties *)

\* Byte k (0-based, least significant first) of the number n.
ByteOf(n, k) == (n[(k \div 2) + 1] \div (IF k % 2 = 0 THEN 1 ELSE 256)) % 256

\* The little-endian encoding of n in w bytes.
LittleEndian(n, w) == AsSeq([k \in 1..w |-> ByteOf(n, k - 1)])

RECURSIVE Flatten(_)
Flatten(ss) == IF ss = <<>> THEN <<>> ELSE Head(ss) \o Flatten(Tail(ss))

\* The wire layout of txObj with every fixed-width field little-endian at
\* its full width and Prefix(script) written before each script.
Layout(txObj, Prefix(_)) ==
  LittleEndian(txObj.version, 4)
    \o numToVarInt(Num(Len(txObj.ins)))
    \o Flatten([k \in 1..Len(txObj.ins) |->
         txObj.ins[k].output.hash \o LittleEndian(txObj.ins[k].output.vout, 4)
           \o Prefix(txObj.ins[k].script) \o txObj.ins[k].script
           \o txObj.ins[k].sequence])
    \o numToVarInt(Num(Len(txObj.outs)))
    \o Flatten([k \in 1..Len(txObj.outs) |->
         LittleEndian(txObj.outs[k].satoshis, 8)
           \o Prefix(txObj.outs[k].script) \o txObj.outs[k].script])
    \o LittleEndian(txObj.locktime, 4)

ByteLengthPrefix(script) == numToVarInt(Num(Len(script)))

ValidIndex == call.i < Len(before.ins)

\* C1: signatureForm leaves the caller's transaction as it was: inputs with
\* their scripts, outputs with amounts and scripts, version and lock time.
C1_SignatureFormLeavesTxUnchanged ==
  (call.op = "signatureForm" /\ ValidIndex) => tx = before

\* C2: signTx changes nothing of the transaction but the script of input i:
\* the other inputs keep their scripts, the outputs their amounts and
\* scripts, and the numbers of inputs and outputs stay.
C2_SignTxChangesOnlyOneScript ==
  (call.op = "signTx" /\ ValidIndex) =>
    /\ Len(tx.ins) = Len(before.ins)
    /\ \A j \in 1..Len(before.ins) : j # call.i + 1 => tx.ins[j] = before.ins[j]
    /\ tx.outs = before.outs

\* C3: with SIGHASH_SINGLE and an output at position i, the preimage has
\* exactly i + 1 outputs, those before position i hold the placeholder
\* amount and an empty script, and the one at position i is output i.
C3_SinglePreimage ==
  ( /\ call.op = "signatureForm"
    /\ call.hashcode = SIGHASH_SINGLE
    /\ ValidIndex
    /\ Len(before.outs) >= call.i + 1 ) =>
      /\ ret.ok
      /\ Len(ret.newTx.outs) = call.i + 1
      /\ \A k \in 1..call.i :
           ret.newTx.outs[k] = [script |-> <<>>, satoshis |-> MaxUint64]
      /\ ret.newTx.outs[call.i + 1] = before.outs[call.i + 1]

\* C4: with SIGHASH_ANYONECANPAY the preimage has exactly one input, which
\* is input i of the transaction with the substitute script as its script,
\* and the outputs, version and lock time of the transaction.
C4_AnyoneCanPayPreimage ==
  ( /\ call.op = "signatureForm"
    /\ call.hashcode = SIGHASH_ANYONECANPAY
    /\ ValidIndex ) =>
      /\ ret.ok
      /\ Len(ret.newTx.ins) = 1
      /\ ret.newTx.ins[1] = [before.ins[call.i + 1] EXCEPT !.script = call.script]
      /\ ret.newTx.outs = before.outs
      /\ ret.newTx.version = before.version
      /\ ret.newTx.locktime = before.locktime

C4_Witness ==
  /\ call.op = "signatureForm"
  /\ call.hashcode = SIGHASH_ANYONECANPAY
  /\ call.i = 1
  /\ Len(before.ins) >= 2
  /\ Len(before.outs) >= 2
  /\ ret.ok
  /\ Len(ret.newTx.ins) = 1

\* C5: in the serialization the prefix written before each script is the
\* varint of the script's length in bytes.
C5_ScriptPrefixIsByteLength ==
  (call.op = "serializeTx" /\ ret.ok) => ret.hex = Layout(before, ByteLengthPrefix)

\* C6: serializeTx writes version, previous output index and lock time as 4
\* little-endian bytes and each amount as 8 little-endian bytes, whatever
\* the value within the field's width; it rejects none.
C6_FixedWidthFieldsInFull ==
  call.op = "serializeTx" => (ret.ok /\ ret.hex = Layout(before, ScriptLength))

\* C7: SIGHASH_SINGLE for an input i with no output at position i ends in
\* an error: no preimage is returned and no unlocking script is written.
C7_SingleWithoutOutputFails ==
  ( /\ call.op \in {"signatureForm", "signTx"}
    /\ call.hashcode = SIGHASH_SINGLE
    /\ ValidIndex
    /\ Len(before.outs) < call.i + 1 ) => ~ret.ok

\* C8: signing again with the same index, key and mode, on the transaction
\* as the first signing left it, gives the same unlocking script.
C8_SigningAgainGivesSameScript ==
  (call.op = "signTx" /\ ret.ok) =>
    \A again \in {signTx(tx, call.i, call.privKey, call.hashcode)} :
      /\ again.ok
      /\ again.txObj.ins[call.i + 1].script = tx.ins[call.i + 1].script

C8_Witness ==
  /\ call.op = "signTx"
  /\ ret.ok
  /\ call.hashcode = SIGHASH_SINGLE
  /\ Len(tx.ins) >= 2
  /\ tx.outs # before.outs
  /\ before.ins[call.i + 1].script = <<>>
  /\ Len(tx.ins[call.i + 1].script) > 70

\* C9: numToVarInt(n) is the byte n below 253; 253 and n in 2 little-endian
\* bytes below 65536; 254 and n in 4 little-endian bytes below 2^32; 253 and
\* n in 8 little-endian bytes from 2^32 on.
C9_VarIntEncoding ==
  call.op = "numToVarInt" =>
    IF num[2] = 0 /\ num[3] = 0 /\ num[4] = 0 /\ num[1] < 253
    THEN varint = <<num[1]>>
    ELSE IF num[2] = 0 /\ num[3] = 0 /\ num[4] = 0
    THEN varint = <<253>> \o LittleEndian(num, 2)
    ELSE IF num[3] = 0 /\ num[4] = 0
    THEN varint = <<254>> \o LittleEndian(num, 4)
    ELSE varint = <<253>> \o LittleEndian(num, 8)

C9_Witness ==
  /\ call.op = "numToVarInt"
  /\ num = <<0, 0, 1, 0>>
  /\ Len(varint) = 9
  /\ varint[1] = 253

\* An encoded integer without the zero byte put before it.
StripPad(b) == IF Len(b) = 33 /\ b[1] = 0 THEN Tail(b) ELSE b

\* C10: the signature is 0x30 len 0x02 len(r') r' 0x02 len(s') s', each
\* length byte the length of what it prefixes, r' and s' the raw 32-byte
\* values with one zero byte in front exactly when their first byte is 128
\* or more; its length is 6 + len(r') + len(s'); the unlocking script has
\* the sighash code as the one byte after it.
C10_DerEncoding ==
  (call.op = "signTx" /\ ret.ok) =>
    \A sig \in {ret.sig} : \A lr \in {sig[4]} : \A ls \in {sig[6 + lr]} :
      /\ Len(ret.rawsig) = 64
      /\ sig[1] = 48
      /\ sig[2] = Len(sig) - 2
      /\ sig[3] = 2
      /\ sig[5 + lr] = 2
      /\ Len(sig) = 6 + lr + ls
      /\ lr = (IF ret.rawsig[1] >= 128 THEN 33 ELSE 32)
      /\ ls = (IF ret.rawsig[33] >= 128 THEN 33 ELSE 32)
      /\ StripPad(SubSeq(sig, 5, 4 + lr)) = SubSeq(ret.rawsig, 1, 32)
      /\ StripPad(SubSeq(sig, 7 + lr, 6 + lr + ls)) = SubSeq(ret.rawsig, 33, 64)
      /\ \A script \in {tx.ins[call.i + 1].script} :
           /\ script[1] = Len(sig) + 1
           /\ SubSeq(script, 2, Len(sig) + 1) = sig
           /\ script[Len(sig) + 2] = call.hashcode

C10_Witness ==
  /\ call.op = "signTx"
  /\ ret.ok
  /\ ret.rawsig[1] >= 128
  /\ ret.rawsig[33] < 128
  /\ Len(ret.sig) = 71

====
